---- MODULE Spec2Model ----
(***************************************************************************)
(* Model of workflow-monitor: the stampede event-store reader              *)
(* (db.py: StampedeDB), the snapshot it assembles (WorkflowSnapshot) and   *)
(* the refresh loop of the dashboard (display.py: run_monitor), run by     *)
(* cli.py: main, next to an external writer that appends rows to the       *)
(* event store.                                                            *)
(***************************************************************************)
EXTENDS Integers, Sequences, FiniteSets, TLC

\* ------------------------------------------------------------------ bounds
MaxLog == 2
MaxTime == 1
MaxCycles == 3
MaxFaults == 1
MaxRows == 3
MaxSnapRows == 2
MaxDelay == 1
MaxQueue == 2
MaxBurst == 21
MaxEventsN == 21

\* ------------------------------------------------------- program constants
\* get_recent_events(limit=20), called without argument by snapshot()
RecentLimit == 20

\* Python None / SQL NULL in a numeric column or field
None == -1
\* SQL NULL / Python None in a string column or field
NULL == "NULL"

\* ------------------------------------------------------------ the event store
\* job catalog (table job, ORDER BY j.job_id)
JobIds == {1, 2}
Times == 0..MaxTime
WfStates == {"WORKFLOW_STARTED", "WORKFLOW_TERMINATED"}

\* a row of table workflowstate (state, timestamp, status)
WfRow(st, ts, status) ==
    [kind |-> "wf", job_id |-> None, state |-> st, timestamp |-> ts,
     status |-> status, seq |-> None]

\* a row of table jobstate joined to its job through job_instance
JobRow(j, st, ts, sq) ==
    [kind |-> "job", job_id |-> j, state |-> st, timestamp |-> ts,
     status |-> None, seq |-> sq]

RECURSIVE SelectSeq2(_, _)
\* the rows of kind k, in the order the table holds them
SelectSeq2(s, k) ==
    IF s = << >> THEN << >>
    ELSE IF Head(s).kind = k THEN << Head(s) >> \o SelectSeq2(Tail(s), k)
    ELSE SelectSeq2(Tail(s), k)

workflowstate(db) == SelectSeq2(db, "wf")
jobstate(db) == SelectSeq2(db, "job")

Range(s) == {s[i] : i \in 1..Len(s)}
Prefix(s, n) == SubSeq(s, 1, n)

\* ------------------------------------------------------------ display_state
display_state_unmappedUnknown(raw_state) ==
    IF raw_state = NULL THEN "UNSUBMITTED"
    ELSE CASE raw_state \in {"POST_SCRIPT_SUCCESS", "JOB_SUCCESS"} -> "SUCCESS"
           [] raw_state \in {"POST_SCRIPT_FAILURE", "JOB_FAILURE"} -> "FAILED"
           [] raw_state = "EXECUTE" -> "RUNNING"
           [] raw_state = "SUBMIT" -> "QUEUED"
           [] raw_state \in {"PRE_SCRIPT_STARTED", "PRE_SCRIPT_SUCCESS"} -> "PRE"
           [] raw_state \in {"POST_SCRIPT_STARTED", "POST_SCRIPT_TERMINATED"} -> "POST"
           [] raw_state = "JOB_TERMINATED" -> "DONE"
           [] raw_state = "JOB_HELD" -> "HELD"
           [] OTHER -> "UNKNOWN"

display_state(raw_state) ==
    IF raw_state = NULL THEN "UNSUBMITTED"
    ELSE CASE raw_state = "POST_SCRIPT_SUCCESS" -> "SUCCESS"
           [] raw_state = "JOB_SUCCESS" -> "SUCCESS"
           [] raw_state = "POST_SCRIPT_FAILURE" -> "FAILED"
           [] raw_state = "JOB_FAILURE" -> "FAILED"
           [] raw_state = "EXECUTE" -> "RUNNING"
           [] raw_state = "SUBMIT" -> "QUEUED"
           [] raw_state = "PRE_SCRIPT_STARTED" -> "PRE"
           [] raw_state = "PRE_SCRIPT_SUCCESS" -> "PRE"
           [] raw_state = "POST_SCRIPT_STARTED" -> "POST"
           [] raw_state = "POST_SCRIPT_TERMINATED" -> "POST"
           [] raw_state = "JOB_TERMINATED" -> "DONE"
           [] raw_state = "JOB_HELD" -> "HELD"
           [] OTHER -> raw_state

\* ------------------------------------------------------- get_workflow_state
UnknownRow == [state |-> "UNKNOWN", timestamp |-> None, status |-> None]

\* ORDER BY timestamp DESC LIMIT 1: SQL leaves the order of rows that tie on
\* timestamp open, so the result is any row of greatest timestamp
get_workflow_state(db) ==
    LET rows == Range(workflowstate(db))
    IN IF rows = {} THEN {UnknownRow}
       ELSE {[state |-> r.state, timestamp |-> r.timestamp, status |-> r.status] :
               r \in {x \in rows : \A y \in rows : y.timestamp <= x.timestamp}}

\* ------------------------------------------------------- get_workflow_times
RECURSIVE InsertAsc(_, _)
\* r put into the sequence s, which ascends by timestamp, after its ties
InsertAsc(r, s) ==
    IF s = << >> THEN << r >>
    ELSE IF r.timestamp < Head(s).timestamp THEN << r >> \o s
    ELSE << Head(s) >> \o InsertAsc(r, Tail(s))

RECURSIVE OrderByTimestamp(_)
\* ORDER BY timestamp
OrderByTimestamp(s) ==
    IF s = << >> THEN << >>
    ELSE InsertAsc(s[Len(s)], OrderByTimestamp(SubSeq(s, 1, Len(s) - 1)))

RECURSIVE ScanTimes(_, _)
\* the for loop of get_workflow_times: a later row overwrites start / end
ScanTimes(rows, acc) ==
    IF rows = << >> THEN acc
    ELSE LET row == Head(rows)
         IN ScanTimes(Tail(rows),
              IF row.state = "WORKFLOW_STARTED"
                THEN [acc EXCEPT !.start = row.timestamp]
              ELSE IF row.state = "WORKFLOW_TERMINATED"
                THEN [acc EXCEPT !.end = row.timestamp]
              ELSE acc)

NoTimes == [start |-> None, end |-> None]

get_workflow_times_unordered(db) == ScanTimes(workflowstate(db), NoTimes)

get_workflow_times(db) == ScanTimes(OrderByTimestamp(workflowstate(db)), NoTimes)

\* ------------------------------------------------------------------ get_jobs
\* ORDER BY js.timestamp DESC, js.jobstate_submit_seq DESC: a comes before b
LatestFirst_noSeq(a, b) == a.timestamp > b.timestamp

LatestFirst(a, b) ==
    \/ a.timestamp > b.timestamp
    \/ a.timestamp = b.timestamp /\ a.seq > b.seq

RECURSIVE InsertLatest(_, _)
InsertLatest(r, s) ==
    IF s = << >> THEN << r >>
    ELSE IF LatestFirst(r, Head(s)) THEN << r >> \o s
    ELSE << Head(s) >> \o InsertLatest(r, Tail(s))

RECURSIVE OrderByLatest(_)
OrderByLatest(s) ==
    IF s = << >> THEN << >>
    ELSE InsertLatest(s[Len(s)], OrderByLatest(SubSeq(s, 1, Len(s) - 1)))

RECURSIVE RowsOfJob(_, _)
\* WHERE ji2.job_id = j.job_id
RowsOfJob(rows, j) ==
    IF rows = << >> THEN << >>
    ELSE IF Head(rows).job_id = j THEN << Head(rows) >> \o RowsOfJob(Tail(rows), j)
    ELSE RowsOfJob(Tail(rows), j)

RECURSIVE RowsInStates(_, _)
\* AND js.state = ... / AND js.state IN (...)
RowsInStates(rows, states) ==
    IF rows = << >> THEN << >>
    ELSE IF Head(rows).state \in states
      THEN << Head(rows) >> \o RowsInStates(Tail(rows), states)
    ELSE RowsInStates(Tail(rows), states)

RECURSIVE SqlMin(_)
\* MIN(js.timestamp): NULL over no rows
SqlMin(rows) ==
    IF rows = << >> THEN None
    ELSE LET m == SqlMin(Tail(rows))
         IN IF m = None \/ Head(rows).timestamp < m THEN Head(rows).timestamp ELSE m

RECURSIVE SqlMax(_)
\* MAX(js.timestamp): NULL over no rows
SqlMax(rows) ==
    IF rows = << >> THEN None
    ELSE LET m == SqlMax(Tail(rows))
         IN IF m = None \/ Head(rows).timestamp > m THEN Head(rows).timestamp ELSE m

\* subquery current_state
CurrentState(rows, j) ==
    LET sorted == OrderByLatest(RowsOfJob(rows, j))
    IN IF sorted = << >> THEN NULL ELSE sorted[1].state

\* subquery submit_time
SubmitTime(rows, j) == SqlMin(RowsInStates(RowsOfJob(rows, j), {"SUBMIT"}))

StartTime_lastExecute(rows, j) == SqlMax(RowsInStates(RowsOfJob(rows, j), {"EXECUTE"}))

\* subquery start_time
StartTime(rows, j) == SqlMin(RowsInStates(RowsOfJob(rows, j), {"EXECUTE"}))

TerminalStates == {"JOB_TERMINATED", "JOB_SUCCESS", "JOB_FAILURE"}

\* subquery end_time
EndTime(rows, j) == SqlMax(RowsInStates(RowsOfJob(rows, j), TerminalStates))

JobRecord(rows, j) ==
    [job_id |-> j,
     raw_state |-> CurrentState(rows, j),
     submit_time |-> SubmitTime(rows, j),
     start_time |-> StartTime(rows, j),
     end_time |-> EndTime(rows, j)]

RECURSIVE JobsFrom(_, _)
\* FROM job j ORDER BY j.job_id, from job id j on
JobsFrom(rows, j) ==
    IF j \notin JobIds THEN << >>
    ELSE << JobRecord(rows, j) >> \o JobsFrom(rows, j + 1)

get_jobs(db) == JobsFrom(jobstate(db), 1)

\* --------------------------------------------------------- get_recent_events
Event(r) == [exec_job_id |-> r.job_id, state |-> r.state, timestamp |-> r.timestamp]

RECURSIVE Events(_)
Events(rows) ==
    IF rows = << >> THEN << >> ELSE << Event(Head(rows)) >> \o Events(Tail(rows))

get_recent_events(db, limit) ==
    LET sorted == OrderByLatest(jobstate(db))
    IN Events(SubSeq(sorted, 1, IF Len(sorted) < limit THEN Len(sorted) ELSE limit))

\* ------------------------------------------------------------ StampedeDB
\* _conn_or_raise: connect() when there is no connection, else reuse it
conn_or_raise(c) == IF c = "none" THEN "open" ELSE c

\* the connection after the except clause of snapshot(): it is not touched
ConnAfterError_closed(c) == "none"

ConnAfterError(c) == c

\* the locals of snapshot() before the try block has bound them
UnboundLocals ==
    [wf_row |-> UnknownRow, wf_times |-> NoTimes, jobs |-> << >>, events |-> << >>]

ExceptOperationalError_keepsPartial(l) == [l EXCEPT !.jobs = << >>, !.events = << >>]

\* except sqlite3.OperationalError: all four locals are rebound
ExceptOperationalError(l) ==
    [wf_row |-> [state |-> "UNKNOWN", timestamp |-> None, status |-> None],
     wf_times |-> [start |-> None, end |-> None],
     jobs |-> << >>,
     events |-> << >>]

\* return WorkflowSnapshot(...)
WorkflowSnapshot(l) ==
    [wf_state |-> l.wf_row.state,
     wf_status |-> l.wf_row.status,
     wf_start |-> l.wf_times.start,
     wf_end |-> l.wf_times.end,
     jobs |-> l.jobs,
     recent_events |-> l.events]

is_running(s) == s.wf_state = "WORKFLOW_STARTED"
is_complete(s) == s.wf_state = "WORKFLOW_TERMINATED"
succeeded(s) == is_complete(s) /\ s.wf_status = 0
failed_anyNonZero(s) == s.wf_status # 0

failed(s) == is_complete(s) /\ s.wf_status # 0

\* ------------------------------------------------------------ run_monitor
\* the name snap of run_monitor before its first assignment
Unbound ==
    [wf_state |-> "<unbound>", wf_status |-> None, wf_start |-> None,
     wf_end |-> None, jobs |-> << >>, recent_events |-> << >>]

ShouldStop_notRunning(s) == ~ is_running(s)

ShouldStop_onlySuccess(s) == succeeded(s) /\ ~ is_running(s)

\* if snap.is_complete and not snap.is_running
ShouldStop(s) == is_complete(s) /\ ~ is_running(s)

AfterPublish_noGrace(o, ph, s) ==
    IF o THEN [pc |-> "summary", phase |-> ph]
    ELSE IF ShouldStop(s) THEN [pc |-> "summary", phase |-> ph]
    ELSE [pc |-> "sleep", phase |-> "main"]

AfterPublish_ignoresOnce(o, ph, s) ==
    IF ph = "grace" THEN [pc |-> "summary", phase |-> ph]
    ELSE IF ShouldStop(s) THEN [pc |-> "sleep", phase |-> "grace"]
    ELSE [pc |-> "sleep", phase |-> "main"]

AfterPublish_repollNoSleep(o, ph, s) ==
    IF o THEN [pc |-> "summary", phase |-> ph]
    ELSE IF ph = "grace" THEN [pc |-> "summary", phase |-> ph]
    ELSE IF ShouldStop(s) THEN [pc |-> "refresh", phase |-> "grace"]
    ELSE [pc |-> "sleep", phase |-> "main"]

\* where run_monitor goes once a cycle is published: o is once, ph the cycle
\* (the one of once mode, one of the while loop, or the re-poll before break)
AfterPublish(o, ph, s) ==
    IF o THEN [pc |-> "summary", phase |-> ph]
    ELSE IF ph = "grace" THEN [pc |-> "summary", phase |-> ph]
    ELSE IF ShouldStop(s) THEN [pc |-> "sleep", phase |-> "grace"]
    ELSE [pc |-> "sleep", phase |-> "main"]

\* the message of _print_final_summary
FinalSummary(s) ==
    IF succeeded(s) THEN "completed successfully"
    ELSE IF failed(s) THEN "FAILED"
    ELSE "Monitoring stopped"

VARIABLES
    log,          \* the event store: the rows appended so far, in order
    conn,         \* StampedeDB._conn: "none" or "open"
    once,         \* run_monitor's parameter once
    pc,           \* where main / run_monitor / snapshot stands
    phase,        \* which _refresh() call of run_monitor is running
    loc,          \* the locals wf_row, wf_times, jobs, events of snapshot()
    snap,         \* run_monitor's local snap
    stats,        \* counters of what run_monitor has done
    hist,         \* what the cycles read and produced
    out           \* the result of a reduction applied to a table

vars == << log, conn, once, pc, phase, loc, snap, stats, hist, out >>

NoOut == [applied |-> FALSE, input |-> << >>, jobs |-> << >>]

Stats0 ==
    [connects |-> 0, closes |-> 0, synth |-> 0, published |-> 0, sleeps |-> 0,
     summaries |-> 0, faults |-> 0, interrupted |-> FALSE,
     sinceTerm |-> 0, sleepsSinceTerm |-> 0]

Hist0 ==
    [kSnap |-> Unbound, lastGood |-> Unbound, summaryOf |-> Unbound,
     fresh |-> FALSE, curFailed |-> FALSE, prevFailed |-> FALSE, failedAt |-> 0,
     seen |-> << 0, 0, 0, 0 >>]

Init ==
    /\ log = << >>
    /\ conn = "none"
    /\ once \in BOOLEAN
    /\ pc = "main"
    /\ phase = IF once THEN "once" ELSE "main"
    /\ loc = UnboundLocals
    /\ snap = Unbound
    /\ stats = Stats0
    /\ hist = Hist0
    /\ out = NoOut

\* ------------------------------------------------------------ the writer
NextSeq(db, j) == Len(RowsOfJob(jobstate(db), j)) + 1

WriterJobs == {1}
WriterJobStates == {"EXECUTE", "JOB_SUCCESS"}

\* the writer logs a job's life in order: the job executes, then succeeds,
\* and a rerun of the workflow executes it again
WriterJobState(db, j) == IF NextSeq(db, j) % 2 = 1 THEN "EXECUTE" ELSE "JOB_SUCCESS"

\* the writer's clock does not go back: a row is stamped no earlier than the
\* row before it (rows may tie on the timestamp)
WriterTimes(db) == {t \in Times : db = << >> \/ t >= db[Len(db)].timestamp}

\* the rows the external writer may append to the store db
WriterRows(db) ==
    {WfRow("WORKFLOW_STARTED", t, None) : t \in WriterTimes(db)}
    \cup {WfRow("WORKFLOW_TERMINATED", t, s) : t \in WriterTimes(db), s \in {0, 1}}
    \cup {JobRow(x[1], x[2], t, NextSeq(db, x[1])) :
            x \in {y \in WriterJobs \X WriterJobStates : y[2] = WriterJobState(db, y[1])},
            t \in WriterTimes(db)}

\* the writer commits one more row; the monitor never writes. A row that is
\* committed while the monitor publishes or sleeps is first seen by the next
\* query, as one committed just before that query is, so the commits are
\* placed before and between the queries
WriterAppend ==
    /\ pc \in {"main", "q1", "q2", "q3", "q4"}
    /\ Len(log) < MaxLog
    /\ \E r \in WriterRows(log) : log' = Append(log, r)
    /\ UNCHANGED << conn, once, pc, phase, loc, snap, stats, hist, out >>

\* ------------------------------------------------------------ main
\* with StampedeDB(db_path) as db: __enter__ connects, run_monitor starts
MainEnter ==
    /\ pc = "main"
    /\ conn' = "open"
    /\ stats' = [stats EXCEPT !.connects = @ + 1]
    /\ pc' = "q1"
    /\ loc' = UnboundLocals
    /\ UNCHANGED << log, once, phase, snap, hist, out >>

MainExit_leavesOpen ==
    /\ pc \in {"returned", "raising"}
    /\ pc' = IF pc = "returned" THEN "done" ELSE "raised"
    /\ UNCHANGED << log, conn, once, phase, loc, snap, stats, hist, out >>

\* __exit__ closes the connection, on return and on an exception alike
MainExit ==
    /\ pc \in {"returned", "raising"}
    /\ conn' = "none"
    /\ stats' = [stats EXCEPT !.closes = IF conn = "open" THEN @ + 1 ELSE @]
    /\ pc' = IF pc = "returned" THEN "done" ELSE "raised"
    /\ UNCHANGED << log, once, phase, loc, snap, hist, out >>

\* ------------------------------------------------------------ snapshot()
\* a query opens the connection when there is none
Connected ==
    /\ conn' = conn_or_raise(conn)
    /\ stats' = [stats EXCEPT !.connects = IF conn = "none" THEN @ + 1 ELSE @]

Query1 ==
    /\ pc = "q1"
    /\ Connected
    /\ \E r \in get_workflow_state(log) : loc' = [loc EXCEPT !.wf_row = r]
    /\ hist' = [hist EXCEPT !.seen[1] = Len(log)]
    /\ pc' = "q2"
    /\ UNCHANGED << log, once, phase, snap, out >>

Query2 ==
    /\ pc = "q2"
    /\ Connected
    /\ loc' = [loc EXCEPT !.wf_times = get_workflow_times(log)]
    /\ hist' = [hist EXCEPT !.seen[2] = Len(log)]
    /\ pc' = "q3"
    /\ UNCHANGED << log, once, phase, snap, out >>

Query3 ==
    /\ pc = "q3"
    /\ Connected
    /\ loc' = [loc EXCEPT !.jobs = get_jobs(log)]
    /\ hist' = [hist EXCEPT !.seen[3] = Len(log)]
    /\ pc' = "q4"
    /\ UNCHANGED << log, once, phase, snap, out >>

Query4 ==
    /\ pc = "q4"
    /\ Connected
    /\ loc' = [loc EXCEPT !.events = get_recent_events(log, RecentLimit)]
    /\ hist' = [hist EXCEPT !.seen[4] = Len(log)]
    /\ pc' = "ret"
    /\ UNCHANGED << log, once, phase, snap, out >>

QueryNo == CASE pc = "q1" -> 1 [] pc = "q2" -> 2 [] pc = "q3" -> 3 [] pc = "q4" -> 4
             [] OTHER -> 0

\* the store is locked or busy: the running query raises OperationalError
QueryFails ==
    /\ pc \in {"q1", "q2", "q3", "q4"}
    /\ stats.faults < MaxFaults
    /\ loc' = ExceptOperationalError(loc)
    /\ conn' = ConnAfterError(conn_or_raise(conn))
    /\ stats' = [stats EXCEPT !.faults = @ + 1,
                              !.connects = IF conn = "none" THEN @ + 1 ELSE @]
    /\ hist' = [hist EXCEPT !.curFailed = TRUE, !.failedAt = QueryNo]
    /\ pc' = "ret"
    /\ UNCHANGED << log, once, phase, snap, out >>

\* ------------------------------------------------------------ run_monitor
\* snapshot() returns, _refresh() hands the result to run_monitor, which
\* binds snap, publishes the layout and decides how to go on
Publish ==
    /\ pc = "ret"
    /\ LET s == WorkflowSnapshot(loc)
           nxt == AfterPublish(once, phase, s)
           first == ~ once /\ s.wf_state = "WORKFLOW_TERMINATED"
       IN /\ snap' = s
          /\ pc' = nxt.pc
          /\ phase' = nxt.phase
          /\ stats' = [stats EXCEPT
                 !.synth = @ + 1,
                 !.published = @ + 1,
                 !.sinceTerm = IF hist.kSnap # Unbound THEN @ + 1 ELSE @]
          /\ hist' = [hist EXCEPT
                 !.fresh = TRUE,
                 !.kSnap = IF @ = Unbound /\ first THEN s ELSE @,
                 !.lastGood = IF hist.curFailed THEN @ ELSE s]
    /\ loc' = UnboundLocals
    /\ UNCHANGED << log, conn, once, out >>

\* time.sleep(poll_interval), then the next _refresh() calls snapshot()
Sleep ==
    /\ pc = "sleep"
    /\ stats.synth < MaxCycles
    /\ pc' = "q1"
    /\ loc' = UnboundLocals
    /\ stats' = [stats EXCEPT
           !.sleeps = @ + 1,
           !.sleepsSinceTerm = IF hist.kSnap # Unbound THEN @ + 1 ELSE @]
    /\ hist' = [hist EXCEPT !.fresh = FALSE,
                            !.prevFailed = hist.curFailed, !.curFailed = FALSE,
                            !.failedAt = 0, !.seen = << 0, 0, 0, 0 >>]
    /\ UNCHANGED << log, conn, once, phase, snap, out >>

\* KeyboardInterrupt while run_monitor synthesizes or sleeps: the loop's
\* except clause catches it; the once branch has no handler
Interrupt ==
    /\ pc \in {"q1", "q2", "q3", "q4", "ret", "sleep"}
    /\ ~ stats.interrupted
    /\ stats' = [stats EXCEPT !.interrupted = TRUE]
    /\ pc' = IF once THEN "raising" ELSE "summary"
    /\ loc' = UnboundLocals
    /\ hist' = [hist EXCEPT !.fresh = FALSE, !.curFailed = FALSE, !.failedAt = 0,
                            !.seen = << 0, 0, 0, 0 >>]
    /\ UNCHANGED << log, conn, once, phase, snap, out >>

\* _print_final_summary(console, snap): snap is unbound when no _refresh()
\* has returned, and reading it raises UnboundLocalError
PrintFinalSummary ==
    /\ pc = "summary"
    /\ IF snap = Unbound
         THEN /\ pc' = "raising"
              /\ UNCHANGED << stats, hist >>
         ELSE /\ pc' = "returned"
              /\ stats' = [stats EXCEPT !.summaries = @ + 1]
              /\ hist' = [hist EXCEPT !.summaryOf = snap]
    /\ UNCHANGED << log, conn, once, phase, loc, snap, out >>

Next ==
    \/ WriterAppend
    \/ MainEnter
    \/ MainExit
    \/ Query1
    \/ Query2
    \/ Query3
    \/ Query4
    \/ QueryFails
    \/ Publish
    \/ Sleep
    \/ Interrupt
    \/ PrintFinalSummary

Spec == Init /\ [][Next]_vars

\* ------------------------------------------------------------ the reducer
\* The queries of StampedeDB as functions of the table contents: a table of
\* at most MaxRows transition rows, of any jobs, states and timestamps, held in
\* insertion order or reversed, with get_jobs applied to it.

ReducerStates == {"SUBMIT", "EXECUTE", "JOB_SUCCESS", "JOB_FAILURE"}

Reverse(s) == [i \in 1..Len(s) |-> s[Len(s) + 1 - i]]

\* the physical orders a table is read in: as inserted, and with every pair of
\* rows the other way round
TableOrders(s) == {s, Reverse(s)}

InitJobs ==
    /\ log = << >>
    /\ conn = "none"
    /\ once = TRUE
    /\ pc = "reduce"
    /\ phase = "once"
    /\ loc = UnboundLocals
    /\ snap = Unbound
    /\ stats = Stats0
    /\ hist = Hist0
    /\ out = NoOut

\* one more transition row of some job: the writer numbers the rows of a job
InsertRow ==
    /\ pc = "reduce"
    /\ Len(log) < MaxRows
    /\ ~ out.applied
    /\ \E j \in JobIds, st \in ReducerStates, t \in Times :
          log' = Append(log, JobRow(j, st, t, NextSeq(log, j)))
    /\ UNCHANGED << conn, once, pc, phase, loc, snap, stats, hist, out >>

\* get_jobs() on the table, whose rows lie in some physical order
ApplyGetJobs ==
    /\ pc = "reduce"
    /\ ~ out.applied
    /\ \E table \in TableOrders(log) :
          out' = [applied |-> TRUE, input |-> table, jobs |-> get_jobs(table)]
    /\ UNCHANGED << log, conn, once, pc, phase, loc, snap, stats, hist >>

NextJobs ==
    \/ InsertRow
    \/ ApplyGetJobs

SpecJobs == InitJobs /\ [][NextJobs]_vars

\* ------------------------------------------------------------ C9
\* the transition rows of job j in a table
RowsFor(table, j) == {r \in Range(table) : r.kind = "job" /\ r.job_id = j}

\* r is the row of greatest timestamp, of greatest sequence number among ties
IsLatest(r, rows) ==
    \A y \in rows :
        \/ y.timestamp < r.timestamp
        \/ y.timestamp = r.timestamp /\ y.seq <= r.seq

\* C9: for every job and every set of its transition rows, held in any order,
\* raw_state is the state of the row of maximum timestamp, ties broken by the
\* maximum sequence number, and it is null for a job without transition rows.
C9_LatestState ==
    out.applied =>
        \A j \in JobIds :
            LET rows == RowsFor(out.input, j)
            IN IF rows = {} THEN out.jobs[j].raw_state = NULL
               ELSE \E r \in rows : IsLatest(r, rows) /\ out.jobs[j].raw_state = r.state

\* a job whose two latest rows tie on the timestamp and differ in state, the one
\* of higher sequence number lying first in the table, and another job without
\* any row
C9_Witness ==
    /\ out.applied
    /\ \E a, b \in 1..Len(out.input) :
          /\ a < b
          /\ out.input[a].job_id = out.input[b].job_id
          /\ out.input[a].timestamp = out.input[b].timestamp
          /\ out.input[a].seq > out.input[b].seq
          /\ out.input[a].state # out.input[b].state
          /\ IsLatest(out.input[a], RowsFor(out.input, out.input[a].job_id))
          /\ out.jobs[out.input[a].job_id].raw_state = out.input[a].state
    /\ \E j \in JobIds : RowsFor(out.input, j) = {} /\ out.jobs[j].raw_state = NULL

\* ------------------------------------------------------------ C10
StampsOf(table, j, states) == {r.timestamp : r \in {x \in RowsFor(table, j) : x.state \in states}}

Least(S) == IF S = {} THEN None ELSE CHOOSE t \in S : \A u \in S : t <= u
Greatest(S) == IF S = {} THEN None ELSE CHOOSE t \in S : \A u \in S : t >= u

WfRowsOf(table) == {r \in Range(table) : r.kind = "wf"}
JobRowsOf(table) == {r \in Range(table) : r.kind = "job"}

Later(y, r) ==
    \/ y.timestamp > r.timestamp
    \/ y.timestamp = r.timestamp /\ y.seq > r.seq

IsStateOf(s, table) ==
    LET rows == WfRowsOf(table)
    IN IF rows = {}
         THEN s.wf_state = "UNKNOWN" /\ s.wf_status = None
         ELSE \E r \in rows :
                /\ \A y \in rows : y.timestamp <= r.timestamp
                /\ s.wf_state = r.state
                /\ s.wf_status = r.status

IsTimesOf(s, table) ==
    /\ s.wf_start = Greatest({r.timestamp : r \in {x \in WfRowsOf(table) :
                                      x.state = "WORKFLOW_STARTED"}})
    /\ s.wf_end = Greatest({r.timestamp : r \in {x \in WfRowsOf(table) :
                                    x.state = "WORKFLOW_TERMINATED"}})

IsJobsOf(s, table) ==
    /\ Len(s.jobs) = Cardinality(JobIds)
    /\ \A j \in JobIds :
          LET rows == RowsFor(table, j)
              rec == s.jobs[j]
          IN /\ rec.job_id = j
             /\ IF rows = {} THEN rec.raw_state = NULL
                ELSE \E r \in rows : IsLatest(r, rows) /\ rec.raw_state = r.state
             /\ rec.submit_time = Least(StampsOf(table, j, {"SUBMIT"}))
             /\ rec.start_time = Least(StampsOf(table, j, {"EXECUTE"}))
             /\ rec.end_time = Greatest(StampsOf(table, j,
                                  {"JOB_TERMINATED", "JOB_SUCCESS", "JOB_FAILURE"}))

IsEventsOf(s, table) ==
    LET rows == JobRowsOf(table)
        n == IF Cardinality(rows) < 20 THEN Cardinality(rows) ELSE 20
    IN /\ Len(s.recent_events) = n
       /\ \A i \in 1..n :
             \E r \in rows :
                /\ Cardinality({y \in rows : Later(y, r)}) = i - 1
                /\ s.recent_events[i].exec_job_id = r.job_id
                /\ s.recent_events[i].state = r.state
                /\ s.recent_events[i].timestamp = r.timestamp

IsReadOf(s, p1, p2, p3, p4) ==
    /\ IsStateOf(s, Prefix(log, p1))
    /\ IsTimesOf(s, Prefix(log, p2))
    /\ IsJobsOf(s, Prefix(log, p3))
    /\ IsEventsOf(s, Prefix(log, p4))

Degraded ==
    [wf_state |-> "UNKNOWN", wf_status |-> None, wf_start |-> None,
     wf_end |-> None, jobs |-> << >>, recent_events |-> << >>]

Halted == {"summary", "returned", "raising", "done", "raised"}

\* ------------------------------------------------------------ C1
\* C1: in continuous mode without interrupt, once a cycle K has synthesized a
\* terminated snapshot, run_monitor sleeps one poll interval, runs exactly one
\* more cycle K+1, publishes it and leaves the loop; nothing is synthesized
\* after cycle K+1, and the loop is not left before it.
C1_OneGraceRepoll ==
    (~ once /\ hist.kSnap # Unbound) =>
        /\ stats.sinceTerm <= 1
        /\ stats.sleepsSinceTerm <= 1
        /\ stats.sinceTerm = 1 =>
              /\ pc \in {"summary", "returned", "done"}
              /\ stats.sleepsSinceTerm = 1
              /\ stats.published = stats.synth
        /\ pc \in {"q1", "q2", "q3", "q4", "ret"} =>
              stats.sleepsSinceTerm = 1 /\ stats.sinceTerm = 0
        /\ (~ stats.interrupted /\ pc \in Halted) =>
              stats.sinceTerm = 1 /\ snap # Unbound

\* a run that polled a running workflow, then saw it terminated, re-polled once
\* and returned
C1_Witness ==
    /\ ~ once
    /\ ~ stats.interrupted
    /\ pc = "done"
    /\ stats.synth = 3
    /\ stats.sinceTerm = 1
    /\ stats.summaries = 1
    /\ hist.kSnap.wf_state = "WORKFLOW_TERMINATED"

\* ------------------------------------------------------------ C2
\* C2: for every behaviour of the writer and of store read failures between the
\* two polls, the terminated snapshot of cycle K and the snapshot of the grace
\* re-poll K+1 have the same wf_status.
C2_SameExitStatus ==
    (~ once /\ hist.fresh /\ stats.sinceTerm = 1) =>
        snap.wf_status = hist.kSnap.wf_status

\* ------------------------------------------------------------ C3
\* C3: run_monitor (continuous mode) prints exactly one final summary before
\* it is left, also when an interrupt arrives during a sleep or a synthesis,
\* the first one included, and the summary is that of the last snapshot that
\* was synthesized without a failed read.
C3_OneFinalSummary ==
    /\ stats.summaries <= 1
    /\ (~ once /\ pc \in {"done", "raised"}) =>
          /\ stats.summaries = 1
          /\ hist.summaryOf = hist.lastGood

\* ------------------------------------------------------------ C4
\* C4: when one of the four queries of a cycle raises OperationalError,
\* snapshot() raises nothing: the cycle's snapshot is the degraded one (state
\* UNKNOWN, no exit status, no times, no jobs, no events), whatever the
\* queries before the failing one had read.
C4_DegradedOnError ==
    hist.curFailed =>
        /\ pc \notin {"raising", "raised"}
        /\ pc = "ret" => WorkflowSnapshot(loc) = Degraded
        /\ hist.fresh => snap = Degraded

\* the fourth query failed after the first three had read workflow and job rows
C4_Witness ==
    /\ hist.fresh
    /\ hist.curFailed
    /\ hist.failedAt = 4
    /\ WfRowsOf(Prefix(log, hist.seen[1])) # {}
    /\ JobRowsOf(Prefix(log, hist.seen[3])) # {}
    /\ snap = Degraded

\* ------------------------------------------------------------ C5
\* C5: when the read of cycle K failed and the read of cycle K+1 succeeds, the
\* snapshot of cycle K+1 is what a healthy read yields from the rows each of
\* its queries found, and the reader is as it was before the failure: the same
\* connection, still open, never reopened.
C5_NoResidue ==
    (hist.fresh /\ hist.prevFailed /\ ~ hist.curFailed) =>
        /\ IsReadOf(snap, hist.seen[1], hist.seen[2], hist.seen[3], hist.seen[4])
        /\ conn = "open"
        /\ stats.connects = 1

\* the cycle after a failed one read a started workflow and a job of it
C5_Witness ==
    /\ hist.fresh
    /\ hist.prevFailed
    /\ ~ hist.curFailed
    /\ snap.wf_state = "WORKFLOW_STARTED"
    /\ snap.wf_start # None
    /\ Len(snap.recent_events) > 0
    /\ snap.jobs[1].raw_state # NULL

C7_SingleShot ==
    once =>
        /\ stats.sleeps = 0
        /\ stats.synth <= 1
        /\ stats.published = stats.synth
        /\ hist.fresh => pc \in {"summary", "returned", "done"}
        /\ pc \in {"summary", "returned", "done"} => stats.synth = 1
        /\ pc \in {"returned", "done"} =>
              stats.summaries = 1 /\ hist.summaryOf = snap

\* a single-shot run that found the workflow terminated and returned at once
C7_Witness ==
    /\ once
    /\ pc = "done"
    /\ snap.wf_state = "WORKFLOW_TERMINATED"
    /\ stats.synth = 1
    /\ stats.summaries = 1
    /\ stats.sleeps = 0

\* ------------------------------------------------------------ C8
\* C8: every snapshot of a healthy read is a point-in-time view: one prefix of
\* the log reduces to its workflow state, its times, its job records and its
\* recent events alike.
C8_PointInTime ==
    (hist.fresh /\ ~ hist.curFailed) =>
        \E p \in 0..Len(log) : IsReadOf(snap, p, p, p, p)

\* ------------------------------------------------------------ derived values
\* An Optional[float] that a property computes: Just(x) is the float x,
\* Nothing is Python None.
Just(x) == << x >>
Nothing == << >>

\* the truth value Python gives an Optional[float]: None and 0 are false
Truthy(t) == t # None /\ t # 0

\* JobRecord.duration, read while the clock shows now
duration(job, now) ==
    IF Truthy(job.start_time) /\ Truthy(job.end_time)
      THEN Just(job.end_time - job.start_time)
    ELSE IF Truthy(job.start_time) /\ display_state(job.raw_state) = "RUNNING"
      THEN Just(now - job.start_time)
    ELSE Nothing

\* WorkflowSnapshot.elapsed, read while the clock shows now
elapsed(s, now) ==
    IF s.wf_start = None THEN Nothing
    ELSE Just((IF Truthy(s.wf_end) THEN s.wf_end ELSE now) - s.wf_start)

\* sum(1 for j in self.jobs if j.disp_state in states)
CountJobs(s, states) ==
    Cardinality({i \in DOMAIN s.jobs : display_state(s.jobs[i].raw_state) \in states})

total_jobs(s) == Len(s.jobs)
done_count(s) == CountJobs(s, {"SUCCESS"})
failed_count(s) == CountJobs(s, {"FAILED"})
running_count(s) == CountJobs(s, {"RUNNING"})
queued_count_onlyQueued(s) == CountJobs(s, {"QUEUED"})

queued_count(s) == CountJobs(s, {"QUEUED", "PRE", "POST"})

\* a float quotient num / den, kept exact; den = 0 is ZeroDivisionError
Quotient(n, d) == [num |-> n, den |-> d]

progress_pct_noZeroCase(s) == Quotient(100 * done_count(s), total_jobs(s))

\* WorkflowSnapshot.progress_pct
progress_pct(s) ==
    IF total_jobs(s) = 0 THEN Quotient(0, 1)
    ELSE Quotient(100 * done_count(s), total_jobs(s))

\* _wf_state_text: the style and the word of the workflow state cell
wf_state_text(s) ==
    IF is_running(s) THEN << "bold cyan", "RUNNING" >>
    ELSE IF succeeded(s) THEN << "bold green", "SUCCESS" >>
    ELSE IF failed(s) THEN << "bold red", "FAILED" >>
    ELSE << "dim", s.wf_state >>

\* _make_status_bar: what it reads from the snapshot while the clock shows now
make_status_bar(s, now) ==
    [done |-> done_count(s),
     total |-> total_jobs(s),
     pct |-> progress_pct(s),
     elapsed |-> elapsed(s, now),
     failed |-> failed_count(s),
     running |-> running_count(s),
     queued |-> queued_count(s),
     unsubmitted |-> CountJobs(s, {"UNSUBMITTED"}),
     state_cell |-> wf_state_text(s)]

\* ------------------------------------------------------------ one cycle
\* One cycle on a store of any content: a table of at most MaxSnapRows
\* workflow and job transition rows with any timestamps, one snapshot() of it
\* (healthy or degraded), and the layout built from that snapshot some time
\* after it was taken.

\* the workflow rows and job rows a store may hold
SnapJobStates == {"SUBMIT", "EXECUTE", "JOB_SUCCESS"}

SnapRows(db) ==
    {WfRow("WORKFLOW_STARTED", t, None) : t \in Times}
    \cup {WfRow("WORKFLOW_TERMINATED", t, st) : t \in Times, st \in {None, 0, 1}}
    \cup {JobRow(j, st, t, NextSeq(db, j)) :
            j \in JobIds, st \in SnapJobStates, t \in Times}

\* the monitor's clock when snapshot() returns: after every timestamp written
PollTimes == {MaxTime + 1}

InitSnap ==
    /\ log = << >>
    /\ conn = "open"
    /\ once = TRUE
    /\ pc = "store"
    /\ phase = "once"
    /\ loc = UnboundLocals
    /\ snap = Unbound
    /\ stats = [poll_time |-> None, healthy |-> FALSE]
    /\ hist = Hist0
    /\ out = NoOut

\* the store receives one more row
SnapInsert ==
    /\ pc = "store"
    /\ Len(log) < MaxSnapRows
    /\ \E r \in SnapRows(log) : log' = Append(log, r)
    /\ UNCHANGED << conn, once, pc, phase, loc, snap, stats, hist, out >>

\* snapshot(): the four queries read the same rows and none fails
TakeSnapshot ==
    /\ pc = "store"
    /\ \E wf_row \in get_workflow_state(log), t \in PollTimes :
          /\ loc' = [wf_row |-> wf_row,
                     wf_times |-> get_workflow_times(log),
                     jobs |-> get_jobs(log),
                     events |-> get_recent_events(log, RecentLimit)]
          /\ snap' = WorkflowSnapshot(loc')
          /\ stats' = [poll_time |-> t, healthy |-> TRUE]
    /\ pc' = "taken"
    /\ UNCHANGED << log, conn, once, phase, hist, out >>

\* snapshot(): a query raises sqlite3.OperationalError
TakeDegraded ==
    /\ pc = "store"
    /\ \E t \in PollTimes :
          /\ loc' = ExceptOperationalError(loc)
          /\ snap' = WorkflowSnapshot(loc')
          /\ stats' = [poll_time |-> t, healthy |-> FALSE]
    /\ pc' = "taken"
    /\ UNCHANGED << log, conn, once, phase, hist, out >>

\* build_layout: the status bar and the duration of every job, read from the
\* snapshot when the clock shows now, at or after the snapshot's poll_time
BuildLayout ==
    /\ pc = "taken"
    /\ \E now \in stats.poll_time .. stats.poll_time + MaxDelay :
          out' = [applied |-> TRUE,
                  now |-> now,
                  status |-> make_status_bar(snap, now),
                  durations |-> [i \in DOMAIN snap.jobs |-> duration(snap.jobs[i], now)]]
    /\ pc' = "shown"
    /\ UNCHANGED << log, conn, once, phase, loc, snap, stats, hist >>

NextSnap ==
    \/ SnapInsert
    \/ TakeSnapshot
    \/ TakeDegraded
    \/ BuildLayout

SpecSnap == InitSnap /\ [][NextSnap]_vars

\* ------------------------------------------------------------ C11
\* C11: in every snapshot, succeeded implies that the workflow state is
\* terminated and the exit status 0, failed implies that the workflow state is
\* terminated and the exit status is not 0, and exactly one of running,
\* succeeded, failed and unknown (none of the three) holds; the state cell shows
\* that one.
C11_ExactlyOneOutcome ==
    pc = "shown" =>
        LET unknown == ~ is_running(snap) /\ ~ succeeded(snap) /\ ~ failed(snap)
            holding == {k \in {"running", "succeeded", "failed", "unknown"} :
                          \/ k = "running" /\ is_running(snap)
                          \/ k = "succeeded" /\ succeeded(snap)
                          \/ k = "failed" /\ failed(snap)
                          \/ k = "unknown" /\ unknown}
        IN /\ succeeded(snap) =>
                snap.wf_state = "WORKFLOW_TERMINATED" /\ snap.wf_status = 0
           /\ failed(snap) =>
                snap.wf_state = "WORKFLOW_TERMINATED" /\ snap.wf_status # 0
           /\ is_running(snap) <=> snap.wf_state = "WORKFLOW_STARTED"
           /\ Cardinality(holding) = 1
           /\ out.status.state_cell[2] =
                (IF snap.wf_state = "WORKFLOW_STARTED" THEN "RUNNING"
                 ELSE IF snap.wf_state = "WORKFLOW_TERMINATED"
                   THEN (IF snap.wf_status = 0 THEN "SUCCESS" ELSE "FAILED")
                 ELSE snap.wf_state)

\* a started workflow whose latest row carries no exit status is shown as
\* running and not as failed
C11_Witness ==
    /\ pc = "shown"
    /\ stats.healthy
    /\ snap.wf_state = "WORKFLOW_STARTED"
    /\ snap.wf_status = None
    /\ snap.wf_end # None
    /\ is_running(snap) /\ ~ failed(snap) /\ ~ succeeded(snap)
    /\ out.status.state_cell[2] = "RUNNING"

\* ------------------------------------------------------------ htcondor_poll
\* JOB_STATUS: HTCondor JobStatus codes
JOB_STATUS ==
    [c \in 1..7 |->
        CASE c = 1 -> "Idle"
          [] c = 2 -> "Running"
          [] c = 3 -> "Removed"
          [] c = 4 -> "Completed"
          [] c = 5 -> "Held"
          [] c = 6 -> "TransferOutput"
          [] OTHER -> "Suspended"]

\* format_job_status: int(None) raises TypeError, which is caught
format_job_status(status_code) ==
    IF status_code = None THEN "None"
    ELSE IF status_code \in DOMAIN JOB_STATUS THEN JOB_STATUS[status_code]
    ELSE ToString(status_code)

\* an entry of the live queue: a dict; a key that is absent (or null in the
\* JSON) holds NULL (DAGNodeName) or None (JobStatus)
QueueEntry(name, code) == [DAGNodeName |-> name, JobStatus |-> code]

\* what a function returns or raises
Returned(v) == [raised |-> FALSE, value |-> v]
Raised(e) == [raised |-> TRUE, value |-> e]

RECURSIVE try_python_bindings(_, _)
\* _try_python_bindings: the modules htcondor and htcondor2 in turn; a module
\* is missing (ImportError), fails in the query (Exception) or answers
try_python_bindings(mods, answer) ==
    IF mods = << >> THEN Nothing
    ELSE IF Head(mods) = "ok" THEN Just(answer)
    ELSE try_python_bindings(Tail(mods), answer)

\* _query_via_subprocess: what condor_q -json does; only TimeoutExpired,
\* FileNotFoundError and JSONDecodeError are caught
query_via_subprocess(condor_q, answer) ==
    CASE condor_q = "missing" -> Returned(<< >>)
      [] condor_q = "not_executable" -> Raised("PermissionError")
      [] condor_q = "timeout" -> Returned(<< >>)
      [] condor_q = "nonzero" -> Returned(<< >>)
      [] condor_q = "empty" -> Returned(<< >>)
      [] condor_q = "malformed" -> Returned(<< >>)
      [] condor_q = "not_list" -> Returned(<< >>)
      [] OTHER -> Returned(answer)

\* query_queue: the bindings first, condor_q when they give None
query_queue(o) ==
    LET result == try_python_bindings(o.bindings, o.answer)
    IN IF result # Nothing THEN Returned(result[1])
       ELSE query_via_subprocess(o.condor_q, o.answer)

\* run_monitor._poll_condor: except Exception: return []
poll_condor(o) ==
    LET r == query_queue(o)
    IN IF r.raised THEN << >> ELSE r.value

\* ------------------------------------------------------------ _make_job_table
Pad2(n) == IF n < 10 THEN "0" \o ToString(n) ELSE ToString(n)

\* fmt_duration
fmt_duration(seconds) ==
    IF seconds = Nothing THEN "-"
    ELSE IF seconds[1] < 0 THEN "-"
    ELSE LET sec == seconds[1]
             m == sec \div 60
             s == sec % 60
         IN IF sec < 60 THEN ToString(sec) \o "s"
            ELSE IF m < 60 THEN ToString(m) \o "m" \o Pad2(s) \o "s"
            ELSE ToString(m \div 60) \o "h" \o Pad2(m % 60) \o "m" \o Pad2(s) \o "s"

\* JOB_TYPE_LABEL.get(type_desc, type_desc)
JobTypeLabel(type_desc) ==
    CASE type_desc = "stage-in-tx" -> "stage-in"
      [] type_desc = "stage-out-tx" -> "stage-out"
      [] type_desc = "create-dir" -> "dir-create"
      [] type_desc = "registration" -> "register"
      [] OTHER -> type_desc

CondorMap_firstWins(condor_jobs) ==
    LET named == {i \in DOMAIN condor_jobs :
                    condor_jobs[i].DAGNodeName \notin {NULL, ""}}
    IN [node \in {condor_jobs[i].DAGNodeName : i \in named} |->
          condor_jobs[CHOOSE i \in named :
                        /\ condor_jobs[i].DAGNodeName = node
                        /\ \A k \in named :
                              condor_jobs[k].DAGNodeName = node => i <= k]]

RECURSIVE CondorMapFrom(_, _)
\* the loop over condor_jobs: node = cj.get("DAGNodeName", ""); an entry with
\* a node is stored under it, replacing the entry stored before
CondorMapFrom(condor_jobs, condor_map) ==
    IF condor_jobs = << >> THEN condor_map
    ELSE LET cj == Head(condor_jobs)
             node == IF cj.DAGNodeName = NULL THEN "" ELSE cj.DAGNodeName
         IN CondorMapFrom(Tail(condor_jobs),
              IF node # "" THEN (node :> cj) @@ condor_map ELSE condor_map)

\* condor_map: DAGNodeName -> entry
CondorMap(condor_jobs) == CondorMapFrom(condor_jobs, [node \in {} |-> NULL])

JobTableRow_liveOverrides(job, condor_map, now) ==
    LET found == job.exec_job_id \in DOMAIN condor_map
        live == IF found THEN format_job_status(condor_map[job.exec_job_id].JobStatus)
                ELSE ""
    IN [name |-> job.exec_job_id,
        type |-> JobTypeLabel(job.type_desc),
        state |-> IF found THEN live ELSE display_state(job.raw_state),
        exit |-> IF job.exitcode # None THEN ToString(job.exitcode) ELSE "-",
        dur |-> fmt_duration(duration(job, now)),
        live |-> live]

\* the row of one job: name, type, state, exit, duration and live cell
JobTableRow(job, condor_map, now) ==
    [name |-> job.exec_job_id,
     type |-> JobTypeLabel(job.type_desc),
     state |-> display_state(job.raw_state),
     exit |-> IF job.exitcode # None THEN ToString(job.exitcode) ELSE "-",
     dur |-> fmt_duration(duration(job, now)),
     live |-> IF job.exec_job_id \in DOMAIN condor_map
                THEN format_job_status(condor_map[job.exec_job_id].JobStatus)
              ELSE ""]

RECURSIVE compute_jobs(_)
\* WorkflowSnapshot.compute_jobs on the job list
compute_jobs(jobs) ==
    IF jobs = << >> THEN << >>
    ELSE IF Head(jobs).type_desc = "compute"
      THEN << Head(jobs) >> \o compute_jobs(Tail(jobs))
    ELSE compute_jobs(Tail(jobs))

NoJobsRow ==
    [name |-> "(no jobs yet)", type |-> "", state |-> "", exit |-> "",
     dur |-> "", live |-> ""]

\* _make_job_table: the rows of the table, built while the clock shows now
make_job_table(s, show_all, condor_jobs, now) ==
    LET condor_map == CondorMap(condor_jobs)
        jobs_to_show == IF show_all THEN s.jobs ELSE compute_jobs(s.jobs)
    IN IF jobs_to_show = << >> THEN << NoJobsRow >>
       ELSE [i \in DOMAIN jobs_to_show |-> JobTableRow(jobs_to_show[i], condor_map, now)]

\* ------------------------------------------------------------ one merge
\* One cycle on a live queue of any content: a snapshot of two jobs (or the
\* degraded one), the fetch of the live queue with any outcome, and the job
\* table and status bar built from both.

\* the raw states of _STATE_MAP, null, and two states the map does not hold
RawStates ==
    {NULL, "POST_SCRIPT_SUCCESS", "JOB_SUCCESS", "POST_SCRIPT_FAILURE",
     "JOB_FAILURE", "EXECUTE", "SUBMIT", "PRE_SCRIPT_STARTED",
     "PRE_SCRIPT_SUCCESS", "POST_SCRIPT_STARTED", "POST_SCRIPT_TERMINATED",
     "JOB_TERMINATED", "JOB_HELD", "JOB_EVICTED", "JOB_ABORTED"}

\* a compute job named a, in any raw state, with or without exit code, not
\* started, started, or started and ended
TableJob(raw, exit, span) ==
    [job_id |-> 1, exec_job_id |-> "a", type_desc |-> "compute",
     raw_state |-> raw, exitcode |-> exit, site |-> NULL,
     submit_time |-> None, start_time |-> span[1], end_time |-> span[2]]

\* a running stage-in job named b
OtherJob ==
    [job_id |-> 2, exec_job_id |-> "b", type_desc |-> "stage-in-tx",
     raw_state |-> "EXECUTE", exitcode |-> None, site |-> NULL,
     submit_time |-> 0, start_time |-> 1, end_time |-> None]

TableSnaps ==
    {[wf_state |-> "WORKFLOW_STARTED", wf_status |-> None, wf_start |-> 0,
      wf_end |-> None, jobs |-> << TableJob(raw, exit, span), OtherJob >>,
      recent_events |-> << >>] :
        raw \in RawStates, exit \in {None, 1},
        span \in {<< None, None >>, << 1, None >>, << 1, 2 >>}}
    \cup {WorkflowSnapshot(ExceptOperationalError(UnboundLocals))}

\* the entries a queue answer is made of: two for the job a with different
\* status, one without status, one of another name, one with an empty name
\* and one without name
QueueEntries ==
    {QueueEntry("a", 2), QueueEntry("a", 5), QueueEntry("a", None),
     QueueEntry("zz", 2), QueueEntry("", 5), QueueEntry(NULL, 9)}

QueueLists == UNION {[1..n -> QueueEntries] : n \in 0..MaxQueue}

ModuleOutcomes == {"missing", "fails", "ok"}
CondorQFailures ==
    {"missing", "not_executable", "timeout", "nonzero", "empty", "malformed",
     "not_list"}

\* what the environment does to one fetch: some source answers with a list, or
\* both binding modules are missing or failing and condor_q fails
FetchOutcomes ==
    {[bindings |-> b, condor_q |-> "ok", answer |-> a] :
        b \in [1..2 -> ModuleOutcomes], a \in QueueLists}
    \cup {[bindings |-> b, condor_q |-> c, answer |-> << >>] :
            b \in [1..2 -> {"missing", "fails"}], c \in CondorQFailures}

\* the failure of a fetch in which no source answered
FailureOf(o) ==
    IF \E i \in 1..2 : o.bindings[i] = "ok" THEN "none" ELSE
    IF o.condor_q = "ok" THEN "none" ELSE o.condor_q

InitTable ==
    /\ log = << >>
    /\ conn = "open"
    /\ once = TRUE
    /\ pc = "poll"
    /\ phase = "once"
    /\ \E show_all \in BOOLEAN : loc = [show_all |-> show_all, condor_jobs |-> << >>]
    /\ snap \in TableSnaps
    /\ \E t \in PollTimes : stats = [poll_time |-> t, healthy |-> snap.jobs # << >>]
    /\ hist = [fetched |-> Returned(<< >>), failure |-> "none",
               before |-> make_status_bar(snap, stats.poll_time)]
    /\ out = NoOut

\* _refresh: condor_jobs = _poll_condor(), whatever query_queue does
PollCondor ==
    /\ pc = "poll"
    /\ \E o \in FetchOutcomes :
          /\ loc' = [loc EXCEPT !.condor_jobs = poll_condor(o)]
          /\ hist' = [hist EXCEPT !.fetched = query_queue(o),
                                  !.failure = FailureOf(o)]
    /\ pc' = "merge"
    /\ UNCHANGED << log, conn, once, phase, snap, stats, out >>

\* build_layout: the job table merged with the live queue, and the status bar
BuildTable ==
    /\ pc = "merge"
    /\ out' = [applied |-> TRUE,
               now |-> stats.poll_time,
               rows |-> make_job_table(snap, loc.show_all, loc.condor_jobs,
                                       stats.poll_time),
               status |-> make_status_bar(snap, stats.poll_time)]
    /\ pc' = "shown"
    /\ UNCHANGED << log, conn, once, phase, loc, snap, stats, hist >>

NextTable ==
    \/ PollCondor
    \/ BuildTable

SpecTable == InitTable /\ [][NextTable]_vars

\* ------------------------------------------------------------ C12
\* the cells of a row that come from the event log
LogCells(row) ==
    [name |-> row.name, type |-> row.type, state |-> row.state,
     exit |-> row.exit, dur |-> row.dur]

\* the jobs the table shows
ShownJobs == {i \in DOMAIN snap.jobs : loc.show_all \/ snap.jobs[i].type_desc = "compute"}

\* the row of job i of the snapshot: the rows follow the order of the job list
RowOf(i) == out.rows[Cardinality({k \in ShownJobs : k <= i})]

\* C12: for a fixed snapshot and any live-queue list (empty, non-matching,
\* matching, with duplicate names), the table has the rows it has with the
\* empty list but for the live cell: the display state, exit code and
\* duration of every job are those of the snapshot, and the counts of the
\* status bar are what they were before the fetch.
C12_LiveMergeIndependence ==
    pc = "shown" =>
        LET unmerged == make_job_table(snap, loc.show_all, << >>, out.now)
        IN /\ Len(out.rows) = Len(unmerged)
           /\ \A i \in DOMAIN unmerged : LogCells(out.rows[i]) = LogCells(unmerged[i])
           /\ \A i \in ShownJobs :
                 /\ RowOf(i).name = snap.jobs[i].exec_job_id
                 /\ RowOf(i).state = display_state(snap.jobs[i].raw_state)
                 /\ RowOf(i).exit =
                      (IF snap.jobs[i].exitcode = None THEN "-"
                       ELSE ToString(snap.jobs[i].exitcode))
                 /\ RowOf(i).dur = fmt_duration(duration(snap.jobs[i], out.now))
           /\ out.status = hist.before

\* the queue holds two entries of the job a, whose live cell is filled, and
\* the state cell of a still shows the state the log gives it
C12_Witness ==
    /\ pc = "shown"
    /\ Len(loc.condor_jobs) = 2
    /\ loc.condor_jobs[1].DAGNodeName = "a"
    /\ loc.condor_jobs[2].DAGNodeName = "a"
    /\ loc.condor_jobs[2].JobStatus = 5
    /\ snap.jobs # << >>
    /\ snap.jobs[1].raw_state = "JOB_SUCCESS"
    /\ out.rows[1].live = "Held"
    /\ out.rows[1].state = "SUCCESS"
    /\ out.rows[1].exit = "1"
    /\ out.rows[1].dur = "1s"

\* ------------------------------------------------------------ C13
\* C13: the live-queue fetch never raises: whichever way it fails (bindings
\* missing or failing and condor_q missing, not executable, timing out,
\* exiting non-zero, or printing nothing, no JSON or no list), query_queue
\* returns an empty list, the layout of the cycle is built from the snapshot
\* and the cycle goes on.
C13_FetchNeverRaises ==
    /\ pc \in {"merge", "shown"} =>
          /\ ~ hist.fetched.raised
          /\ hist.failure # "none" => hist.fetched = Returned(<< >>)
    /\ pc = "shown" => out.status = hist.before

\* ------------------------------------------------------------ C14
\* C14: a snapshot is time-consistent: the elapsed time of an unfinished
\* workflow and the duration of an in-flight job are counted up to the
\* snapshot's poll_time, so whenever they are read after the snapshot was
\* taken they are what they were at poll_time.
C14_TimeConsistent ==
    pc = "shown" =>
        /\ out.status.elapsed = elapsed(snap, stats.poll_time)
        /\ \A i \in DOMAIN snap.jobs :
              out.durations[i] = duration(snap.jobs[i], stats.poll_time)

\* ------------------------------------------------------------ recent events
\* One cycle on a long log: a burst of up to MaxBurst transition rows of a job,
\* written in time order two to a second, up to MaxSnapRows further rows with
\* any timestamps, then one snapshot() and the events panel for events_n = n.

RECURSIVE Burst(_)
\* the first n rows of the burst
Burst(n) ==
    IF n = 0 THEN << >>
    ELSE Append(Burst(n - 1),
                JobRow(1, IF n % 2 = 1 THEN "SUBMIT" ELSE "EXECUTE", n \div 2, n))

\* snap.recent_events[:n], n >= 0
Slice(s, n) == SubSeq(s, 1, IF n < Len(s) THEN n ELSE Len(s))

\* _make_events_panel: the events of the rows of the panel
make_events_panel(s, n) == Slice(s.recent_events, n)

InitEvents ==
    /\ \E n \in 0..MaxBurst : log = Burst(n)
    /\ conn = "open"
    /\ once = TRUE
    /\ pc = "events"
    /\ phase = "once"
    /\ loc = UnboundLocals
    /\ snap = Unbound
    /\ stats = [poll_time |-> None, healthy |-> FALSE, extra |-> 0]
    /\ hist = Hist0
    /\ out = NoOut

\* the store receives one more row of the job, stamped with any time
EventInsert ==
    /\ pc = "events"
    /\ stats.extra < MaxSnapRows
    /\ \E st \in {"SUBMIT", "EXECUTE"}, t \in Times :
          log' = Append(log, JobRow(1, st, t, NextSeq(log, 1)))
    /\ stats' = [stats EXCEPT !.extra = @ + 1]
    /\ UNCHANGED << conn, once, pc, phase, loc, snap, hist, out >>

\* _refresh and _make_events_panel(snap, n=events_n)
ShowEvents ==
    /\ pc = "events"
    /\ \E wf_row \in get_workflow_state(log), n \in 0..MaxEventsN :
          /\ loc' = [wf_row |-> wf_row,
                     wf_times |-> get_workflow_times(log),
                     jobs |-> get_jobs(log),
                     events |-> get_recent_events(log, RecentLimit)]
          /\ snap' = WorkflowSnapshot(loc')
          /\ out' = [applied |-> TRUE, n |-> n, shown |-> make_events_panel(snap', n)]
    /\ pc' = "shown"
    /\ UNCHANGED << log, conn, once, phase, stats, hist >>

NextEvents ==
    \/ EventInsert
    \/ ShowEvents

SpecEvents == InitEvents /\ [][NextEvents]_vars

\* ------------------------------------------------------------ C15
\* C15: for every events-to-show value N >= 0, the events shown in a cycle are
\* the N most recent job transition rows of the log (all of them when the log
\* holds fewer than N), the most recent first: by timestamp, then by sequence
\* number.
C15_NMostRecent ==
    pc = "shown" =>
        LET rows == JobRowsOf(log)
            k == IF Cardinality(rows) < out.n THEN Cardinality(rows) ELSE out.n
        IN /\ Len(out.shown) = k
           /\ \A i \in 1..k :
                 \E r \in rows :
                    /\ Cardinality({y \in rows : Later(y, r)}) = i - 1
                    /\ out.shown[i].exec_job_id = r.job_id
                    /\ out.shown[i].state = r.state
                    /\ out.shown[i].timestamp = r.timestamp

\* ------------------------------------------------------------ C16
\* C16: the duration of a job is end_time - start_time whenever both are
\* present, whatever the timestamps are (0 included), else now - start_time
\* when start_time is present and the display state is RUNNING, else
\* undefined; a job with only a SUBMIT row has display state QUEUED, no
\* start_time and no duration.
C16_Duration ==
    pc = "shown" =>
        \A i \in DOMAIN snap.jobs :
            LET job == snap.jobs[i]
                rows == RowsFor(log, job.job_id)
            IN /\ out.durations[i] =
                    (IF job.start_time # None /\ job.end_time # None
                       THEN Just(job.end_time - job.start_time)
                     ELSE IF job.start_time # None /\ job.raw_state = "EXECUTE"
                       THEN Just(out.now - job.start_time)
                     ELSE Nothing)
               /\ (rows # {} /\ \A r \in rows : r.state = "SUBMIT") =>
                    /\ display_state(job.raw_state) = "QUEUED"
                    /\ job.start_time = None
                    /\ out.durations[i] = Nothing

\* ------------------------------------------------------------ C17
\* C17: in every snapshot progress_pct lies in [0, 100], is 100 * done_count /
\* total_jobs when there are jobs, done_count being the number of jobs whose
\* display state is SUCCESS, and is 0.0, without a division by zero, when the
\* job list is empty, as in the degraded snapshot.
C17_Progress ==
    pc = "shown" =>
        LET p == out.status.pct
            total == Len(snap.jobs)
            done == Cardinality({i \in DOMAIN snap.jobs :
                       snap.jobs[i].raw_state \in {"JOB_SUCCESS", "POST_SCRIPT_SUCCESS"}})
        IN /\ p.den > 0
           /\ 0 <= p.num /\ p.num <= 100 * p.den
           /\ total > 0 => p.num * total = 100 * done * p.den
           /\ total = 0 => p.num = 0
           /\ out.status.done = done /\ out.status.total = total

\* one of two jobs has succeeded: 50 percent
C17_Witness ==
    /\ pc = "shown"
    /\ stats.healthy
    /\ Len(snap.jobs) = 2
    /\ out.status.done = 1
    /\ out.status.pct.num = 50 * out.status.pct.den
    /\ snap.jobs[1].raw_state = "EXECUTE"
    /\ snap.jobs[2].raw_state = "JOB_SUCCESS"

\* ------------------------------------------------------------ C18
\* the display states of the twelve raw states, as the table of the
\* specification lists them
StateTable ==
    [raw \in {"POST_SCRIPT_SUCCESS", "JOB_SUCCESS", "POST_SCRIPT_FAILURE",
              "JOB_FAILURE", "EXECUTE", "SUBMIT", "PRE_SCRIPT_STARTED",
              "PRE_SCRIPT_SUCCESS", "POST_SCRIPT_STARTED",
              "POST_SCRIPT_TERMINATED", "JOB_TERMINATED", "JOB_HELD"} |->
        IF raw \in {"JOB_SUCCESS", "POST_SCRIPT_SUCCESS"} THEN "SUCCESS"
        ELSE IF raw \in {"JOB_FAILURE", "POST_SCRIPT_FAILURE"} THEN "FAILED"
        ELSE IF raw = "EXECUTE" THEN "RUNNING"
        ELSE IF raw = "SUBMIT" THEN "QUEUED"
        ELSE IF raw \in {"PRE_SCRIPT_STARTED", "PRE_SCRIPT_SUCCESS"} THEN "PRE"
        ELSE IF raw \in {"POST_SCRIPT_STARTED", "POST_SCRIPT_TERMINATED"} THEN "POST"
        ELSE IF raw = "JOB_TERMINATED" THEN "DONE"
        ELSE "HELD"]

\* C18: display_state is total: the state cell of a job whose raw state is
\* null shows UNSUBMITTED, that of a job in one of the twelve listed raw states
\* shows the entry of the table, and that of a job in any other raw state shows
\* the raw state itself.
C18_DisplayStateTotal ==
    pc = "shown" =>
        \A i \in ShownJobs :
            LET raw == snap.jobs[i].raw_state
            IN RowOf(i).state =
                 (IF raw = NULL THEN "UNSUBMITTED"
                  ELSE IF raw \in DOMAIN StateTable THEN StateTable[raw]
                  ELSE raw)

\* a job in a raw state that the map does not hold is shown in that state
C18_Witness ==
    /\ pc = "shown"
    /\ snap.jobs # << >>
    /\ snap.jobs[1].raw_state = "JOB_EVICTED"
    /\ out.rows[1].name = "a"
    /\ out.rows[1].state = "JOB_EVICTED"

\* ------------------------------------------------------------ C19
\* C19: wf_state is the state of a workflow row of greatest timestamp, UNKNOWN
\* when the store holds no workflow row; wf_start is the greatest timestamp of
\* the WORKFLOW_STARTED rows and wf_end the greatest timestamp of the
\* WORKFLOW_TERMINATED rows, in whatever order the rows were written: a later
\* start or termination supersedes an earlier one.
C19_WorkflowReduction ==
    (pc \in {"taken", "shown"} /\ stats.healthy) =>
        LET rows == WfRowsOf(log)
            started == {r.timestamp : r \in {x \in rows : x.state = "WORKFLOW_STARTED"}}
            ended == {r.timestamp : r \in {x \in rows : x.state = "WORKFLOW_TERMINATED"}}
        IN /\ IF rows = {} THEN snap.wf_state = "UNKNOWN"
              ELSE \E r \in rows :
                     /\ \A y \in rows : y.timestamp <= r.timestamp
                     /\ snap.wf_state = r.state
           /\ IF started = {} THEN snap.wf_start = None
              ELSE snap.wf_start \in started /\ \A t \in started : t <= snap.wf_start
           /\ IF ended = {} THEN snap.wf_end = None
              ELSE snap.wf_end \in ended /\ \A t \in ended : t <= snap.wf_end

\* a restarted workflow whose later start was written before the earlier one:
\* wf_start is the later time
C19_Witness ==
    /\ pc = "taken"
    /\ stats.healthy
    /\ Len(log) = 2
    /\ log[1].state = "WORKFLOW_STARTED" /\ log[1].timestamp = 1
    /\ log[2].state = "WORKFLOW_STARTED" /\ log[2].timestamp = 0
    /\ snap.wf_start = 1
    /\ snap.wf_end = None
    /\ snap.wf_state = "WORKFLOW_STARTED"

\* ------------------------------------------------------------ C20
\* the entries of the queue that carry the name of job
EntriesOf(job) ==
    {k \in DOMAIN loc.condor_jobs :
        /\ loc.condor_jobs[k].DAGNodeName = job.exec_job_id
        /\ loc.condor_jobs[k].DAGNodeName \notin {NULL, ""}}

RECURSIVE Named(_)
\* a queue list without its entries of missing or empty name
Named(list) ==
    IF list = << >> THEN << >>
    ELSE IF Head(list).DAGNodeName \in {NULL, ""} THEN Named(Tail(list))
    ELSE << Head(list) >> \o Named(Tail(list))

\* C20: the live cell of a job shows the status of the last entry of the queue
\* list that carries the job's name and is empty when no entry does; entries
\* whose name is missing or empty change nothing; every list yields a table.
C20_LiveJoin ==
    pc = "shown" =>
        /\ \A i \in ShownJobs :
              LET found == EntriesOf(snap.jobs[i])
              IN RowOf(i).live =
                   (IF found = {} THEN ""
                    ELSE format_job_status(
                           loc.condor_jobs[CHOOSE k \in found :
                                             \A m \in found : m <= k].JobStatus))
        /\ out.rows = make_job_table(snap, loc.show_all, Named(loc.condor_jobs), out.now)
        /\ Len(out.rows) >= 1

\* two entries of the job a with different status, the later one shown; the
\* job b, which the queue does not hold, has an empty live cell
C20_Witness ==
    /\ pc = "shown"
    /\ loc.show_all
    /\ loc.condor_jobs = << QueueEntry("a", 2), QueueEntry("a", 5) >>
    /\ Len(out.rows) = 2
    /\ out.rows[1].name = "a" /\ out.rows[1].live = "Held"
    /\ out.rows[2].name = "b" /\ out.rows[2].live = ""

\* ------------------------------------------------------------ C21
RECURSIVE JobCountsFrom(_, _)
\* the loop of job_counts: counts[s] = counts.get(s, 0) + 1 for every job
JobCountsFrom(jobs, counts) ==
    IF jobs = << >> THEN counts
    ELSE LET s == display_state(Head(jobs).raw_state)
             n == IF s \in DOMAIN counts THEN counts[s] ELSE 0
         IN JobCountsFrom(Tail(jobs), (s :> (n + 1)) @@ counts)

\* WorkflowSnapshot.job_counts
job_counts(s) == JobCountsFrom(s.jobs, [d \in {} |-> 0])

RECURSIVE infra_jobs(_)
\* WorkflowSnapshot.infra_jobs on the job list
infra_jobs(jobs) ==
    IF jobs = << >> THEN << >>
    ELSE IF Head(jobs).type_desc # "compute"
      THEN << Head(jobs) >> \o infra_jobs(Tail(jobs))
    ELSE infra_jobs(Tail(jobs))

RECURSIVE SumCounts(_, _)
\* the sum of the values of a dict over the keys given
SumCounts(counts, keys) ==
    IF keys = {} THEN 0
    ELSE LET k == CHOOSE x \in keys : TRUE
         IN counts[k] + SumCounts(counts, keys \ {k})

\* C21: the aggregates of a snapshot agree with its job list: job_counts has
\* exactly the display states present as keys, each with the number of jobs in
\* it, and its values sum to total_jobs; done_count, failed_count and
\* running_count are the numbers of SUCCESS, FAILED and RUNNING jobs;
\* queued_count is the number of jobs in QUEUED, PRE or POST; every job is in
\* exactly one of compute_jobs and infra_jobs; the status bar shows these
\* numbers.
C21_Aggregates ==
    pc = "shown" =>
        LET jobs == snap.jobs
            counts == job_counts(snap)
            disp(i) == display_state(jobs[i].raw_state)
            InStates(S) == Cardinality({i \in DOMAIN jobs : disp(i) \in S})
            Get(d) == IF d \in DOMAIN counts THEN counts[d] ELSE 0
            comp == compute_jobs(jobs)
            infra == infra_jobs(jobs)
        IN /\ DOMAIN counts = {disp(i) : i \in DOMAIN jobs}
           /\ \A d \in DOMAIN counts : counts[d] = InStates({d})
           /\ SumCounts(counts, DOMAIN counts) = total_jobs(snap)
           /\ total_jobs(snap) = Len(jobs)
           /\ done_count(snap) = Get("SUCCESS")
           /\ failed_count(snap) = Get("FAILED")
           /\ running_count(snap) = Get("RUNNING")
           /\ queued_count(snap) = Get("QUEUED") + Get("PRE") + Get("POST")
           /\ Len(comp) + Len(infra) = Len(jobs)
           /\ Range(comp) \cap Range(infra) = {}
           /\ \A i \in DOMAIN jobs :
                 /\ jobs[i] \in Range(comp) <=> jobs[i].type_desc = "compute"
                 /\ jobs[i] \in Range(infra) <=> jobs[i].type_desc # "compute"
           /\ out.status.done = Get("SUCCESS")
           /\ out.status.failed = Get("FAILED")
           /\ out.status.running = Get("RUNNING")
           /\ out.status.queued = Get("QUEUED") + Get("PRE") + Get("POST")
           /\ out.status.total = Len(jobs)

\* a compute job in a pre-script state next to a running stage-in job: one job
\* counted as queued, one as running, one compute job and one infra job
C21_Witness ==
    /\ pc = "shown"
    /\ Len(snap.jobs) = 2
    /\ display_state(snap.jobs[1].raw_state) = "PRE"
    /\ job_counts(snap) = ("PRE" :> 1) @@ ("RUNNING" :> 1)
    /\ out.status.queued = 1
    /\ out.status.running = 1
    /\ Len(compute_jobs(snap.jobs)) = 1
    /\ Len(infra_jobs(snap.jobs)) = 1

\* ------------------------------------------------------------ C22
\* the steps of the monitor process: each returns once it is started (a query
\* answers or raises within the timeout of the connection, a sleep ends)
MonitorStep ==
    \/ MainEnter
    \/ MainExit
    \/ Query1
    \/ Query2
    \/ Query3
    \/ Query4
    \/ Publish
    \/ Sleep
    \/ PrintFinalSummary

\* the run_monitor loop with a monitor process that keeps running
SpecLive == Init /\ [][Next]_vars /\ WF_vars(MonitorStep)

\* every workflow row of greatest timestamp is WORKFLOW_TERMINATED
LatestTerminated ==
    \A r \in get_workflow_state(log) : r.state = "WORKFLOW_TERMINATED"

\* a cycle of the continuous loop starts, the writer has written its last row,
\* the latest workflow row is WORKFLOW_TERMINATED, and there are cycles left
\* for the terminal cycle, the re-poll and one cycle per store fault to come
TerminalFromHere ==
    /\ ~ once
    /\ pc = "q1"
    /\ Len(log) = MaxLog
    /\ LatestTerminated
    /\ stats.synth + 2 + (MaxFaults - stats.faults) <= MaxCycles

DescriptorOutcomes == {"missing", "found", "unparsable"}

\* WorkflowInfo.stampede_db: the path exists or it does not
DbOutcomes == {"missing", "present"}

\* sqlite3.connect of an existing file in mode=ro: it opens, or it raises
\* OperationalError (the file is not readable, or was removed meanwhile)
ConnectOutcomes == {"ok", "fails"}

Envs ==
    [descriptor : DescriptorOutcomes, db : DbOutcomes, connect : ConnectOutcomes]

load_braindump(descriptor) ==
    CASE descriptor = "missing" -> Raised("FileNotFoundError")
      [] descriptor = "unparsable" -> Raised("KeyError")
      [] OTHER -> Returned("info")

\* the workflow rows the writer may append: its clock is the number of rows
MainRows(db) ==
    {WfRow("WORKFLOW_STARTED", Len(db), None)}
    \cup {WfRow("WORKFLOW_TERMINATED", Len(db), s) : s \in {0, 1}}

\* the fetches of the live queue that bring no entry: every failure, and
\* every source answering with an empty list
MainFetches == {o \in FetchOutcomes : o.answer = << >>}

MainStats0 ==
    [connects |-> 0, closes |-> 0, synth |-> 0, sleeps |-> 0, summaries |-> 0,
     faults |-> 0, interrupted |-> FALSE, entered |-> FALSE]

\* cycle: what the running cycle has done so far; last: what the cycle
\* published last did; sleeps: the sleeps since the last publish; gap: the
\* sleeps between the last publish and the start of the running cycle
MainHist0(env) ==
    [env |-> env, cycle |-> << >>, last |-> << >>, sleeps |-> 0, gap |-> 0]

MainOut0 == [exit |-> None, message |-> "none"]

InitMain ==
    /\ log = << >>
    /\ conn = "none"
    /\ once \in BOOLEAN
    /\ pc = "start"
    /\ phase = IF once THEN "once" ELSE "main"
    /\ loc = UnboundLocals
    /\ snap = Unbound
    /\ stats = MainStats0
    /\ \E env \in Envs : hist = MainHist0(env)
    /\ out = MainOut0

\* the writer commits one more workflow row before a cycle reads the store
StoreAppend ==
    /\ pc = "refresh"
    /\ Len(log) < MaxLog
    /\ \E r \in MainRows(log) : log' = Append(log, r)
    /\ UNCHANGED << conn, once, pc, phase, loc, snap, stats, hist, out >>

\* info = load_braindump(target); FileNotFoundError is reported and main
\* returns 1, any other exception leaves main
LoadBraindump ==
    /\ pc = "start"
    /\ LET r == load_braindump(hist.env.descriptor)
       IN IF ~ r.raised
            THEN pc' = "located" /\ out' = out
          ELSE IF r.value = "FileNotFoundError"
            THEN pc' = "exited"
                 /\ out' = [exit |-> 1, message |-> "braindump not found"]
          ELSE pc' = "exited" /\ out' = [exit |-> 1, message |-> "traceback"]
    /\ UNCHANGED << log, conn, once, phase, loc, snap, stats, hist >>

\* db_path = info.stampede_db; None is reported and main returns 1
StampedeDbPath ==
    /\ pc = "located"
    /\ IF hist.env.db = "missing"
         THEN pc' = "exited"
              /\ out' = [exit |-> 1, message |-> "database not found"]
         ELSE pc' = "enter" /\ out' = out
    /\ UNCHANGED << log, conn, once, phase, loc, snap, stats, hist >>

\* with StampedeDB(db_path) as db: __enter__ connects and run_monitor is
\* called, or connect raises and the exception leaves main
WithStampedeDB ==
    /\ pc = "enter"
    /\ IF hist.env.connect = "ok"
         THEN /\ conn' = "open"
              /\ stats' = [stats EXCEPT !.connects = @ + 1, !.entered = TRUE]
              /\ pc' = "refresh"
              /\ out' = out
         ELSE /\ conn' = conn
              /\ stats' = stats
              /\ pc' = "exited"
              /\ out' = [exit |-> 1, message |-> "traceback"]
    /\ UNCHANGED << log, once, phase, loc, snap, hist >>

\* _refresh: snap = db.snapshot(), no query failing
Snapshot ==
    /\ pc = "refresh"
    /\ \E wf_row \in get_workflow_state(log) :
          loc' = [wf_row |-> wf_row,
                  wf_times |-> get_workflow_times(log),
                  jobs |-> get_jobs(log),
                  events |-> get_recent_events(log, RecentLimit)]
    /\ conn' = conn_or_raise(conn)
    /\ stats' = [stats EXCEPT !.connects = IF conn = "none" THEN @ + 1 ELSE @]
    /\ hist' = [hist EXCEPT !.cycle = Append(@, "read"),
                            !.gap = hist.sleeps, !.sleeps = 0]
    /\ pc' = "poll"
    /\ UNCHANGED << log, once, phase, snap, out >>

\* _refresh: snap = db.snapshot(), a query raising OperationalError
SnapshotDegraded ==
    /\ pc = "refresh"
    /\ stats.faults < MaxFaults
    /\ loc' = ExceptOperationalError(loc)
    /\ conn' = ConnAfterError(conn_or_raise(conn))
    /\ stats' = [stats EXCEPT !.faults = @ + 1,
                              !.connects = IF conn = "none" THEN @ + 1 ELSE @]
    /\ hist' = [hist EXCEPT !.cycle = Append(@, "read_failed"),
                            !.gap = hist.sleeps, !.sleeps = 0]
    /\ pc' = "poll"
    /\ UNCHANGED << log, once, phase, snap, out >>

\* _refresh: condor_jobs = _poll_condor(), whatever the fetch does
PollQueue ==
    /\ pc = "poll"
    /\ \E o \in MainFetches :
          hist' = [hist EXCEPT !.cycle = Append(@,
                      IF query_queue(o).raised \/ FailureOf(o) # "none"
                        THEN "fetch_failed" ELSE "fetch")]
    /\ pc' = "ret"
    /\ UNCHANGED << log, conn, once, phase, loc, snap, stats, out >>

\* _refresh returns; run_monitor binds snap, shows the layout and goes on
UpdateLive ==
    /\ pc = "ret"
    /\ LET s == WorkflowSnapshot(loc)
           nxt == AfterPublish(once, phase, s)
       IN /\ snap' = s
          /\ pc' = nxt.pc
          /\ phase' = nxt.phase
    /\ stats' = [stats EXCEPT !.synth = @ + 1]
    /\ hist' = [hist EXCEPT !.last = hist.cycle, !.cycle = << >>]
    /\ loc' = UnboundLocals
    /\ UNCHANGED << log, conn, once, out >>

\* time.sleep(poll_interval)
SleepInterval ==
    /\ pc = "sleep"
    /\ stats.synth < MaxCycles
    /\ pc' = "refresh"
    /\ stats' = [stats EXCEPT !.sleeps = @ + 1]
    /\ hist' = [hist EXCEPT !.sleeps = @ + 1]
    /\ UNCHANGED << log, conn, once, phase, loc, snap, out >>

\* KeyboardInterrupt inside run_monitor: caught around the while loop only
KeyboardInterrupt ==
    /\ pc \in {"refresh", "poll", "ret", "sleep"}
    /\ ~ stats.interrupted
    /\ stats' = [stats EXCEPT !.interrupted = TRUE]
    /\ pc' = IF once THEN "raising" ELSE "summary"
    /\ loc' = UnboundLocals
    /\ hist' = [hist EXCEPT !.cycle = << >>]
    /\ UNCHANGED << log, conn, once, phase, snap, out >>

\* _print_final_summary(console, snap)
PrintSummary ==
    /\ pc = "summary"
    /\ IF snap = Unbound
         THEN pc' = "raising" /\ stats' = stats
         ELSE pc' = "returned" /\ stats' = [stats EXCEPT !.summaries = @ + 1]
    /\ UNCHANGED << log, conn, once, phase, loc, snap, hist, out >>

\* the with block is left: __exit__ closes the connection; main returns 0,
\* or the exception leaves main
ExitStampedeDB ==
    /\ pc \in {"returned", "raising"}
    /\ conn' = "none"
    /\ stats' = [stats EXCEPT !.closes = IF conn = "open" THEN @ + 1 ELSE @]
    /\ out' = IF pc = "returned" THEN [exit |-> 0, message |-> "none"]
              ELSE [exit |-> 1, message |-> "traceback"]
    /\ pc' = "exited"
    /\ UNCHANGED << log, once, phase, loc, snap, hist >>

NextMain ==
    \/ StoreAppend
    \/ LoadBraindump
    \/ StampedeDbPath
    \/ WithStampedeDB
    \/ Snapshot
    \/ SnapshotDegraded
    \/ PollQueue
    \/ UpdateLive
    \/ SleepInterval
    \/ KeyboardInterrupt
    \/ PrintSummary
    \/ ExitStampedeDB

SpecMain == InitMain /\ [][NextMain]_vars

\* ------------------------------------------------------------ C23
\* the two fatal conditions of the error taxonomy
FatalEnv ==
    \/ hist.env.descriptor = "missing"
    \/ hist.env.descriptor = "found" /\ hist.env.db = "missing"

\* C23: under a fatal condition (no descriptor; descriptor but no event
\* database) main reports the error and returns a non-zero status, and the
\* store is never opened nor run_monitor entered; in every other case
\* run_monitor is entered, and the exit status is non-zero only if the user
\* interrupted the monitor (store faults and failed fetches leave it 0).
C23_OnlyTwoFatal ==
    /\ FatalEnv =>
          /\ stats.connects = 0 /\ conn = "none" /\ ~ stats.entered
          /\ pc = "exited" =>
                /\ out.exit # 0
                /\ out.message =
                     (IF hist.env.descriptor = "missing"
                        THEN "braindump not found" ELSE "database not found")
    /\ (~ FatalEnv /\ pc = "exited") =>
          /\ stats.entered
          /\ out.exit # 0 => stats.interrupted

\* ------------------------------------------------------------ C24
\* the writer's clock went on between any two rows: the rows ascend strictly
\* by timestamp
Ascending(table) ==
    \A i \in 1..Len(table) - 1 : table[i].timestamp < table[i + 1].timestamp

\* a WORKFLOW_STARTED row is the last workflow row, and a WORKFLOW_TERMINATED
\* row precedes it
Restarted(table) ==
    LET wf == workflowstate(table)
    IN /\ wf # << >>
       /\ wf[Len(wf)].state = "WORKFLOW_STARTED"
       /\ \E i \in 1..Len(wf) - 1 : wf[i].state = "WORKFLOW_TERMINATED"

\* C24: in a snapshot read without fault from a store whose rows ascend by
\* timestamp, wf_end is not before wf_start when both are present and the
\* elapsed time shown is not negative; after a restart the snapshot is running
\* and the elapsed time runs from the new start to the current time.
C24_ElapsedNonNegative ==
    (pc = "shown" /\ stats.healthy /\ Ascending(log)) =>
        /\ (snap.wf_start # None /\ snap.wf_end # None) =>
              snap.wf_end >= snap.wf_start
        /\ out.status.elapsed # Nothing => out.status.elapsed[1] >= 0
        /\ Restarted(log) =>
              /\ is_running(snap)
              /\ out.status.elapsed = Just(out.now - snap.wf_start)

\* ------------------------------------------------------------ C25
StoreReads == {"read", "read_failed"}
QueueFetches == {"fetch", "fetch_failed"}

\* C25: a cycle reads the store once and then fetches the live queue once,
\* whether or not either fails, before it is published; a cycle of the
\* continuous loop that follows another starts after exactly one sleep, and
\* the first cycle starts without one.
C25_NoRetries ==
    /\ Len(hist.cycle) <= 2
    /\ pc = "poll" => Len(hist.cycle) = 1
    /\ pc = "ret" => Len(hist.cycle) = 2
    /\ Len(hist.cycle) >= 1 =>
          /\ hist.cycle[1] \in StoreReads
          /\ hist.gap = (IF stats.synth = 0 THEN 0 ELSE 1)
    /\ Len(hist.cycle) = 2 => hist.cycle[2] \in QueueFetches
    /\ stats.synth >= 1 =>
          /\ Len(hist.last) = 2
          /\ hist.last[1] \in StoreReads
          /\ hist.last[2] \in QueueFetches
    /\ (pc = "refresh" /\ stats.synth >= 1) => hist.sleeps = 1
    /\ stats.synth = 0 => stats.sleeps = 0
    /\ stats.synth >= 1 => stats.sleeps \in {stats.synth - 1, stats.synth}
    /\ (pc \in {"refresh", "poll", "ret"} /\ stats.synth >= 1) =>
          stats.sleeps = stats.synth
    /\ pc = "sleep" => stats.sleeps = stats.synth - 1
    /\ once => stats.sleeps = 0 /\ stats.synth <= 1

\* the second cycle of the continuous loop has read the store and fetched the
\* queue, after a cycle in which the read and the fetch both failed and one
\* sleep
C25_Witness ==
    /\ ~ once
    /\ pc = "ret"
    /\ stats.synth = 1
    /\ hist.last = << "read_failed", "fetch_failed" >>
    /\ hist.cycle = << "read", "fetch" >>
    /\ hist.gap = 1
    /\ stats.sleeps = 1

\* ------------------------------------------------------------ C26
\* C26: during a run of main the connection to the event store is opened
\* once, stays open from the entry of run_monitor to its exit, through every
\* query and after a failed one, and is closed once when main is left, by
\* return or by exception; the connections opened and not closed are never
\* more than one, and none after the exit.
C26_HandleLifecycle ==
    /\ stats.connects <= 1
    /\ stats.connects - stats.closes = (IF conn = "open" THEN 1 ELSE 0)
    /\ pc = "main" => conn = "none" /\ stats.connects = 0
    /\ pc \in {"q1", "q2", "q3", "q4", "ret", "sleep", "summary", "returned",
               "raising"} => conn = "open" /\ stats.connects = 1
    /\ pc \in {"done", "raised"} =>
          conn = "none" /\ stats.connects = 1 /\ stats.closes = 1

\* single-shot mode left by an exception (an interrupt) after a query of its
\* cycle failed: the one connection was closed
C26_Witness ==
    /\ once
    /\ pc = "raised"
    /\ stats.faults = 1
    /\ stats.interrupted
    /\ stats.connects = 1
    /\ stats.closes = 1
    /\ conn = "none"

====
